---- MODULE Spec2Model ----
(***************************************************************************)
(* Model of maytrix-value's Symbol (src/maytrix-value/src/symbol.rs): a    *)
(* validated identifier newtype over String.                               *)
(*                                                                         *)
(* A Rust str / String is modelled as what it is: a sequence of UTF-8      *)
(* bytes.  A char is a Unicode scalar value (a natural number).            *)
(*                                                                         *)
(* Three specifications share the variables:                               *)
(*   SpecText  the constructors and the validator applied to one text      *)
(*   Spec      the life of Symbol values held in three bindings a, b, c    *)
(*   SpecSet   a HashSet<Symbol> and a BTreeSet<Symbol> with lookups       *)
(***************************************************************************)
EXTENDS Naturals, Sequences, FiniteSets

VARIABLES text, out, syms, origin, last, hset, bset, inserted

vars == <<text, out, syms, origin, last, hset, bset, inserted>>

(***************************************************************************)
(* Bounds and input alphabet                                               *)
(***************************************************************************)
\* longest input text, in characters, handed to the validator (SpecText)
MaxLen == 3
\* longest text, in characters, handed to a constructor in Spec and SpecSet
MaxKeyLen == 2
\* most entries a container holds (SpecSet)
MaxEntries == 2
\* longest run of characters appended to a valid text when extending it
MaxExt == 2

\* 'a' 'z' '0' '_' 'A' '-' ' ' and U+00C4
Chars == {97, 122, 48, 95, 65, 45, 32, 196}

\* characters the pattern allows after the first one
TailChars == {c \in Chars : (c >= 97 /\ c <= 122) \/ (c >= 48 /\ c <= 57) \/ c = 95}

CharSeqs(n) == UNION {[1..k -> Chars] : k \in 0..n}

(***************************************************************************)
(* str <-> chars (UTF-8, one and two byte forms)                           *)
(***************************************************************************)
encode_char(c) ==
    IF c < 128 THEN <<c>> ELSE <<192 + (c \div 64), 128 + (c % 64)>>

RECURSIVE encode(_)
encode(cs) ==
    IF cs = <<>> THEN <<>> ELSE encode_char(Head(cs)) \o encode(Tail(cs))

\* str::chars(): decode the bytes into scalar values
RECURSIVE chars(_)
chars(s) ==
    IF s = <<>> THEN <<>>
    ELSE IF s[1] < 128 THEN <<s[1]>> \o chars(Tail(s))
    ELSE <<(s[1] - 192) * 64 + (s[2] - 128)>> \o chars(Tail(Tail(s)))

\* the input texts, as character sequences; encode(t) is the str handed over
Texts == CharSeqs(MaxLen)

\* the texts Spec and SpecSet construct from: every text over 'a' '0' up to
\* MaxKeyLen characters, and "a_", "_a", "A", "a-", "aB" and 'a' U+00C4
KeyChars == {97, 48}
OtherTexts == {<<97, 95>>, <<95, 97>>, <<65>>, <<97, 45>>, <<97, 66>>, <<97, 196>>}
KeyTexts == UNION {[1..k -> KeyChars] : k \in 0..MaxKeyLen} \cup OtherTexts

(***************************************************************************)
(* Symbol::is_valid                                                        *)
(***************************************************************************)
is_ascii_lowercase(c) == c >= 97 /\ c <= 122
is_ascii_digit(c) == c >= 48 /\ c <= 57

\* the condition of the for loop's body, negated: c may follow the first char
tail_char_ok(c) == is_ascii_lowercase(c) \/ is_ascii_digit(c) \/ c = 95

\* the for loop over the remaining chars, with its early return
RECURSIVE scan_tail(_)
scan_tail(cs) ==
    IF cs = <<>> THEN TRUE
    ELSE IF ~tail_char_ok(Head(cs)) THEN FALSE
    ELSE scan_tail(Tail(cs))

\* a validator that holds every character to the first character's rule
is_valid_first_rule_everywhere(s) ==
    LET cs == chars(s) IN
    /\ cs # <<>>
    /\ \A i \in 1..Len(cs) : is_ascii_lowercase(cs[i])

\* a validator that accepts any ASCII letter, upper case included
is_valid_alphabetic(s) ==
    LET cs == chars(s)
        alpha(c) == is_ascii_lowercase(c) \/ (c >= 65 /\ c <= 90) IN
    /\ cs # <<>>
    /\ alpha(cs[1])
    /\ \A i \in 2..Len(cs) : alpha(cs[i]) \/ is_ascii_digit(cs[i]) \/ cs[i] = 95

is_valid(s) ==
    LET cs == chars(s) IN
    IF cs = <<>> \/ ~is_ascii_lowercase(Head(cs)) THEN FALSE
    ELSE scan_tail(Tail(cs))

(***************************************************************************)
(* Symbol, SymbolError, Result                                             *)
(***************************************************************************)
SymbolError == [kind |-> "SymbolError"]

Ok(v) == [tag |-> "Ok", val |-> v]
Err(e) == [tag |-> "Err", val |-> e]
NotCalled == [tag |-> "NotCalled"]

\* String::to_ascii_lowercase on the bytes
to_ascii_lowercase(s) ==
    [i \in 1..Len(s) |-> IF s[i] >= 65 /\ s[i] <= 90 THEN s[i] + 32 ELSE s[i]]

\* a constructor that folds the case of its input before validating it
try_new_folding(value) ==
    LET s == to_ascii_lowercase(value) IN
    IF is_valid(s) THEN Ok([value |-> s]) ELSE Err(SymbolError)

try_new(value) ==
    LET s == value IN
    IF is_valid(s) THEN Ok([value |-> s]) ELSE Err(SymbolError)

as_str(self) == self.value

deref(self) == as_str(self)
as_ref(self) == as_str(self)
borrow(self) == as_str(self)

\* a parser that builds the Symbol without validating
from_str_unchecked(s) == Ok([value |-> s])

\* an owned-text conversion that takes the String over without validating
try_from_string_unchecked(value) == Ok([value |-> value])

from_str(s) == try_new(s)
try_from_str(value) == try_new(value)
try_from_string(value) == try_new(value)

(***************************************************************************)
(* Equality, hashing and ordering of Symbol and of str                     *)
(***************************************************************************)
\* str == str: the byte slices have equal length and equal bytes
str_eq(x, y) == Len(x) = Len(y) /\ \A i \in 1..Len(x) : x[i] = y[i]

\* an equality that compares only as far as the shorter operand reaches
eq_common_prefix(self, other) ==
    LET n == IF Len(self.value) < Len(other.value) THEN Len(self.value) ELSE Len(other.value) IN
    \A i \in 1..n : self.value[i] = other.value[i]

\* #[derive(PartialEq, Eq)]: the value fields are equal
eq(self, other) == str_eq(self.value, other.value)

\* <str as Hash>::hash: write the bytes, then the 0xff terminator
str_hash(s) == s \o <<255>>

\* <[u8] as Hash>::hash: write the length, then the bytes
bytes_hash(s) == <<Len(s)>> \o s

\* a hand-written Hash that hashes the value's bytes as a slice
hash_as_bytes(self) == bytes_hash(self.value)

\* #[derive(Hash)]: hash the value field, a String, which hashes as str
hash(self) == str_hash(self.value)

\* the Hasher a container applies to what hash() feeds it
RECURSIVE hasher_fold(_, _)
hasher_fold(feed, h) ==
    IF feed = <<>> THEN h ELSE hasher_fold(Tail(feed), (h * 31 + Head(feed)) % 251)

finish(feed) == hasher_fold(feed, 7)

\* <str as Ord>::cmp: compare the bytes of the common prefix, then the lengths
str_cmp(x, y) ==
    LET n == IF Len(x) < Len(y) THEN Len(x) ELSE Len(y)
        diff == {i \in 1..n : x[i] # y[i]} IN
    IF diff # {}
    THEN LET i == CHOOSE j \in diff : \A k \in diff : j <= k IN
         IF x[i] < y[i] THEN "Less" ELSE "Greater"
    ELSE IF Len(x) < Len(y) THEN "Less"
    ELSE IF Len(x) > Len(y) THEN "Greater"
    ELSE "Equal"

\* an ordering with its operands the wrong way round
cmp_reversed(self, other) == str_cmp(as_str(other), as_str(self))

cmp(self, other) == str_cmp(as_str(self), as_str(other))

Some(v) == [tag |-> "Some", val |-> v]

partial_cmp(self, other) == Some(str_cmp(as_str(self), as_str(other)))

\* str::eq_ignore_ascii_case
eq_ignore_ascii_case(x, y) == str_eq(to_ascii_lowercase(x), to_ascii_lowercase(y))

\* a text-to-Symbol equality that ignores ASCII case
eq_str_symbol_ignoring_case(self, other) == eq_ignore_ascii_case(self, as_str(other))

\* impl PartialEq<&str> for Symbol
eq_symbol_str(self, other) == str_eq(as_str(self), other)
\* impl PartialEq<Symbol> for &str
eq_str_symbol(self, other) == str_eq(self, as_str(other))
\* impl PartialEq<String> for Symbol
eq_symbol_string(self, other) == str_eq(as_str(self), other)
\* impl PartialEq<Symbol> for String
eq_string_symbol(self, other) == str_eq(self, as_str(other))

(***************************************************************************)
(* Outward conversions                                                     *)
(***************************************************************************)
\* a Display that writes the value the way Debug does, in double quotes
fmt_quoted(self, f) == f \o <<34>> \o self.value \o <<34>>

\* Display: the value is written to the formatter's buffer as it is
fmt(self, f) == f \o self.value

\* ToString::to_string: format into an empty buffer
to_string(self) == fmt(self, <<>>)

\* impl From<Symbol> for String
from_symbol_for_string(s) == s.value

\* impl From<Symbol> for Box<str>: String::into_boxed_str keeps the bytes
from_symbol_for_box(s) == [i \in 1..Len(s.value) |-> s.value[i]]

\* #[derive(Clone)]
clone(self) == [value |-> self.value]

\* Vec<Symbol>::sort(): a stable sort by Ord::cmp
RECURSIVE sort_insert(_, _)
sort_insert(sorted, x) ==
    IF sorted = <<>> THEN <<x>>
    ELSE IF cmp(x, Head(sorted)) = "Less" THEN <<x>> \o sorted
    ELSE <<Head(sorted)>> \o sort_insert(Tail(sorted), x)

RECURSIVE sort(_)
sort(v) ==
    IF v = <<>> THEN <<>> ELSE sort_insert(sort(SubSeq(v, 1, Len(v) - 1)), v[Len(v)])

(***************************************************************************)
(* The pattern ^[a-z][a-z0-9_]*$ over a character sequence, stated as the  *)
(* pattern reads and not as the validator scans                            *)
(***************************************************************************)
PatLower == 97..122
PatTail == (97..122) \cup (48..57) \cup {95}

MatchesPattern(cs) ==
    /\ Len(cs) >= 1
    /\ cs[1] \in PatLower
    /\ \A i \in 2..Len(cs) : cs[i] \in PatTail

(***************************************************************************)
(* SpecText: the validator and the four constructors applied to one text   *)
(***************************************************************************)
TextOps == {"is_valid", "try_new", "from_str", "try_from_str", "try_from_string", "as_str"}
EntryPoints == {"try_new", "from_str", "try_from_str", "try_from_string"}

Ret(v) == [tag |-> "Ret", val |-> v]

NoSyms == [s \in {} |-> 0]
NoCall == [op |-> "none"]

InitText ==
    /\ text \in Texts
    /\ out = [o \in TextOps |-> NotCalled]
    /\ syms = NoSyms
    /\ origin = NoSyms
    /\ last = NoCall
    /\ hset = <<>>
    /\ bset = <<>>
    /\ inserted = {}

Record(o, r) ==
    /\ out[o] = NotCalled
    /\ out' = [out EXCEPT ![o] = r]
    /\ UNCHANGED <<text, syms, origin, last, hset, bset, inserted>>

CallIsValid == Record("is_valid", Ret(is_valid(encode(text))))
CallTryNew == Record("try_new", try_new(encode(text)))
CallFromStr == Record("from_str", from_str(encode(text)))
CallTryFromStr == Record("try_from_str", try_from_str(encode(text)))
CallTryFromString == Record("try_from_string", try_from_string(encode(text)))

\* ok.unwrap().as_str() on the Symbol try_new built
CallAsStr ==
    /\ out["try_new"].tag = "Ok"
    /\ Record("as_str", Ret(as_str(out["try_new"].val)))

NextText ==
    \/ CallIsValid
    \/ CallTryNew
    \/ CallFromStr
    \/ CallTryFromStr
    \/ CallTryFromString
    \/ CallAsStr

SpecText == InitText /\ [][NextText]_vars

\* C1: is_valid(s) is true exactly when s matches ^[a-z][a-z0-9_]*$: length
\* at least 1, first character in a-z, every later one in a-z, 0-9 or '_'.
IsValidMatchesPattern ==
    out["is_valid"].tag = "Ret" => (out["is_valid"].val <=> MatchesPattern(text))

\* is_valid has accepted a text whose tail holds a digit or an underscore
IsValidAcceptedWitness ==
    /\ out["is_valid"].tag = "Ret"
    /\ out["is_valid"].val
    /\ Len(text) = MaxLen
    /\ \E i \in 2..Len(text) : text[i] \in {48, 95}

\* C2: try_new(s) is Ok exactly when is_valid(s), and the Symbol it builds
\* reads back as s, character for character.
TryNewAgreesAndRoundTrips ==
    /\ (out["try_new"].tag # "NotCalled" /\ out["is_valid"].tag = "Ret")
          => (out["try_new"].tag = "Ok" <=> out["is_valid"].val)
    /\ out["try_new"].tag # "NotCalled"
          => (out["try_new"].tag = "Ok" <=> MatchesPattern(text))
    /\ out["as_str"].tag = "Ret"
          => (out["as_str"].val = encode(text) /\ chars(out["as_str"].val) = text)

\* try_new succeeded, is_valid was asked too, and the Symbol was read back
TryNewRoundTripWitness ==
    /\ out["try_new"].tag = "Ok"
    /\ out["is_valid"].tag = "Ret"
    /\ out["as_str"].tag = "Ret"
    /\ Len(text) >= 2

\* C4: try_new, from_str, try_from(&str) and try_from(String) give the same
\* outcome on the same text, and every error is the one SymbolError value.
EntryPointsAgree ==
    /\ \A p, q \in EntryPoints :
          (out[p].tag # "NotCalled" /\ out[q].tag # "NotCalled")
             => (out[p].tag = out[q].tag /\ out[p].val = out[q].val)
    /\ \A p \in EntryPoints : out[p].tag = "Err" => out[p].val = SymbolError

\* all four entry points were called on an invalid text and failed
EntryPointsAllFailedWitness ==
    /\ \A p \in EntryPoints : out[p].tag = "Err"
    /\ text # <<>>

\* C10: validity is decided character by character: a valid text's
\* non-empty prefixes are valid, a valid text followed by characters from
\* a-z, 0-9, '_' is valid, and a text with a character outside that set, or
\* with a digit or '_' first, is invalid.
ValidityIsCharwise ==
    out["is_valid"].tag = "Ret" =>
       /\ out["is_valid"].val =>
             /\ \A k \in 1..Len(text) : is_valid(encode(SubSeq(text, 1, k)))
             /\ \A ext \in UNION {[1..k -> TailChars] : k \in 0..MaxExt} :
                   is_valid(encode(text \o ext))
       /\ (\/ \E i \in 1..Len(text) : text[i] \notin PatTail
           \/ (text # <<>> /\ text[1] \in (48..57) \cup {95}))
             => ~out["is_valid"].val

\* is_valid has accepted a text that has a proper prefix and a digit in it
ValidityCharwiseWitness ==
    /\ out["is_valid"].tag = "Ret"
    /\ out["is_valid"].val
    /\ Len(text) >= 2
    /\ \E i \in 2..Len(text) : text[i] = 48

(***************************************************************************)
(* Spec: Symbols held in the bindings a, b, c                              *)
(***************************************************************************)
Slots == {"a", "b", "c"}
SlotOrder == <<"a", "b", "c">>

Live == DOMAIN syms

Init ==
    /\ text = <<>>
    /\ out = [o \in TextOps |-> NotCalled]
    /\ syms = NoSyms
    /\ origin = NoSyms
    /\ last = NoCall
    /\ hset = <<>>
    /\ bset = <<>>
    /\ inserted = {}

Rest == <<text, out, hset, bset, inserted>>

Bind(f, slot, v) == [x \in (DOMAIN f) \cup {slot} |-> IF x = slot THEN v ELSE f[x]]
Unbind(f, slot) == [x \in (DOMAIN f) \ {slot} |-> f[x]]

\* let s = <a text>;  the plain text the next call is handed
NoCmp == [kind |-> "none"]

Input(t) ==
    /\ last.op # "input"
    /\ last' = [op |-> "input", text |-> encode(t), seen |-> NoCmp]
    /\ UNCHANGED <<syms, origin>>
    /\ UNCHANGED Rest

\* let slot = <entry point>(s)?;  a failed call binds nothing
Construct(op, slot, r) ==
    /\ IF r.tag = "Ok"
       THEN /\ syms' = Bind(syms, slot, r.val)
            /\ origin' = Bind(origin, slot, last.text)
       ELSE UNCHANGED <<syms, origin>>
    /\ last' = [op |-> op, ok |-> r.tag = "Ok"]
    /\ UNCHANGED Rest

TryNew(slot) ==
    last.op = "input" /\ Construct("try_new", slot, try_new(last.text))
FromStr(slot) ==
    last.op = "input" /\ Construct("from_str", slot, from_str(last.text))
TryFromStr(slot) ==
    last.op = "input" /\ Construct("try_from_str", slot, try_from_str(last.text))
TryFromString(slot) ==
    last.op = "input" /\ Construct("try_from_string", slot, try_from_string(last.text))

\* a text taken in hand is handed to a constructor or compared before
\* anything else is called
NoTextInHand == last.op # "input"

\* let dst = src.clone();
Clone(src, dst) ==
    /\ NoTextInHand
    /\ src \in Live
    /\ syms' = Bind(syms, dst, clone(syms[src]))
    /\ origin' = Bind(origin, dst, origin[src])
    /\ last' = [op |-> "clone"]
    /\ UNCHANGED Rest

\* a call through &self: the Symbols are left as they are
Read(r) ==
    /\ last' = r
    /\ UNCHANGED <<syms, origin>>
    /\ UNCHANGED Rest

AsStr(slot) ==
    NoTextInHand /\ slot \in Live /\ Read([op |-> "as_str", slot |-> slot, ret |-> as_str(syms[slot])])
Deref(slot) ==
    NoTextInHand /\ slot \in Live /\ Read([op |-> "deref", slot |-> slot, ret |-> deref(syms[slot])])
AsRef(slot) ==
    NoTextInHand /\ slot \in Live /\ Read([op |-> "as_ref", slot |-> slot, ret |-> as_ref(syms[slot])])
Borrow(slot) ==
    NoTextInHand /\ slot \in Live /\ Read([op |-> "borrow", slot |-> slot, ret |-> borrow(syms[slot])])
ToString(slot) ==
    NoTextInHand /\ slot \in Live /\ Read([op |-> "to_string", arg |-> syms[slot], ret |-> to_string(syms[slot])])

Eq(i, j) ==
    /\ NoTextInHand /\ i \in Live /\ j \in Live
    /\ Read([op |-> "eq", lhs |-> i, rhs |-> j, ret |-> eq(syms[i], syms[j])])
Cmp(i, j) ==
    /\ NoTextInHand /\ i \in Live /\ j \in Live
    /\ Read([op |-> "cmp", lhs |-> i, rhs |-> j, ret |-> cmp(syms[i], syms[j])])
PartialCmp(i, j) ==
    /\ NoTextInHand /\ i \in Live /\ j \in Live
    /\ Read([op |-> "partial_cmp", lhs |-> i, rhs |-> j, ret |-> partial_cmp(syms[i], syms[j])])
Hash(slot) ==
    NoTextInHand /\ slot \in Live /\ Read([op |-> "hash", slot |-> slot, ret |-> finish(hash(syms[slot]))])

\* the four cross-type comparisons of a Symbol with the plain text in hand;
\* both operands are borrowed, so the text stays in hand.  A text is compared
\* once before it is used or replaced.
Compare(kind, slot, ret) ==
    /\ last.op = "input"
    /\ last.seen = NoCmp
    /\ slot \in Live
    /\ Read([last EXCEPT !.seen = [kind |-> kind, slot |-> slot, ret |-> ret]])

SymbolEqStr(slot) ==
    slot \in Live /\ Compare("eq_symbol_str", slot, eq_symbol_str(syms[slot], last.text))
StrEqSymbol(slot) ==
    slot \in Live /\ Compare("eq_str_symbol", slot, eq_str_symbol(last.text, syms[slot]))
SymbolEqString(slot) ==
    slot \in Live /\ Compare("eq_symbol_string", slot, eq_symbol_string(syms[slot], last.text))
StringEqSymbol(slot) ==
    slot \in Live /\ Compare("eq_string_symbol", slot, eq_string_symbol(last.text, syms[slot]))

\* the live Symbols, cloned into a Vec in binding order
LiveVec == LET live == SelectSeq(SlotOrder, LAMBDA x : x \in Live) IN
           [i \in 1..Len(live) |-> clone(syms[live[i]])]

\* let mut v = vec![..]; v.sort();
SortVec == NoTextInHand /\ Live # {} /\ Read([op |-> "sort", ret |-> sort(LiveVec)])

\* a consuming conversion: the binding is moved out of
Consume(op, slot, ret) ==
    /\ NoTextInHand
    /\ slot \in Live
    /\ syms' = Unbind(syms, slot)
    /\ origin' = Unbind(origin, slot)
    /\ last' = [op |-> op, arg |-> syms[slot], ret |-> ret]
    /\ UNCHANGED Rest

IntoString(slot) ==
    slot \in Live /\ Consume("into_string", slot, from_symbol_for_string(syms[slot]))
IntoBoxedStr(slot) ==
    slot \in Live /\ Consume("into_boxed_str", slot, from_symbol_for_box(syms[slot]))

Next ==
    \/ \E t \in KeyTexts : Input(t)
    \/ \E slot \in Slots : TryNew(slot)
    \/ \E slot \in Slots : FromStr(slot)
    \/ \E slot \in Slots : TryFromStr(slot)
    \/ \E slot \in Slots : TryFromString(slot)
    \/ \E src \in Slots, dst \in Slots : Clone(src, dst)
    \/ \E slot \in Slots : AsStr(slot)
    \/ \E slot \in Slots : Deref(slot)
    \/ \E slot \in Slots : AsRef(slot)
    \/ \E slot \in Slots : Borrow(slot)
    \/ \E slot \in Slots : ToString(slot)
    \/ \E i \in Slots, j \in Slots : Eq(i, j)
    \/ \E i \in Slots, j \in Slots : Cmp(i, j)
    \/ \E i \in Slots, j \in Slots : PartialCmp(i, j)
    \/ \E slot \in Slots : Hash(slot)
    \/ \E slot \in Slots : SymbolEqStr(slot)
    \/ \E slot \in Slots : StrEqSymbol(slot)
    \/ \E slot \in Slots : SymbolEqString(slot)
    \/ \E slot \in Slots : StringEqSymbol(slot)
    \/ SortVec
    \/ \E slot \in Slots : IntoString(slot)
    \/ \E slot \in Slots : IntoBoxedStr(slot)

Spec == Init /\ [][Next]_vars

(***************************************************************************)
(* Claims about the Symbols of Spec                                        *)
(***************************************************************************)
Sym(slot) == syms[slot]
Text(slot) == chars(as_str(syms[slot]))

\* lexicographic comparison of two character sequences by code point
RECURSIVE LexCmp(_, _)
LexCmp(x, y) ==
    IF x = <<>> /\ y = <<>> THEN "Equal"
    ELSE IF x = <<>> THEN "Less"
    ELSE IF y = <<>> THEN "Greater"
    ELSE IF Head(x) < Head(y) THEN "Less"
    ELSE IF Head(x) > Head(y) THEN "Greater"
    ELSE LexCmp(Tail(x), Tail(y))

\* C3: every Symbol that exists holds a value matching ^[a-z][a-z0-9_]*$
\* and is still the text it was constructed from, whatever was called.
SymbolsStayValid ==
    /\ \A slot \in Live :
          /\ MatchesPattern(Text(slot))
          /\ as_str(Sym(slot)) = origin[slot]
    /\ last.op = "sort" => \A i \in 1..Len(last.ret) : MatchesPattern(chars(last.ret[i].value))
    /\ last.op = "to_string" => MatchesPattern(chars(last.arg.value))

\* three Symbols are bound, one of them a clone, after a rejected construction
\* or a read
SymbolsStayValidWitness ==
    /\ Cardinality(Live) = 3
    /\ \E i \in Live, j \in Live : i # j /\ Sym(i) = Sym(j)
    /\ \E i \in Live, j \in Live : Sym(i) # Sym(j)
    /\ last.op = "try_from_string"
    /\ ~last.ok

\* C5: a == b exactly when the texts are the same character sequence; == is
\* reflexive, symmetric and transitive; equal Symbols have equal hashes.
EqualityIsTextEquality ==
    /\ \A i \in Live, j \in Live :
          /\ eq(Sym(i), Sym(j)) <=> (Text(i) = Text(j))
          /\ eq(Sym(i), Sym(j)) => eq(Sym(j), Sym(i))
          /\ eq(Sym(i), Sym(j)) => finish(hash(Sym(i))) = finish(hash(Sym(j)))
    /\ \A i \in Live : eq(Sym(i), Sym(i))
    /\ \A i \in Live, j \in Live, k \in Live :
          (eq(Sym(i), Sym(j)) /\ eq(Sym(j), Sym(k))) => eq(Sym(i), Sym(k))
    /\ last.op = "eq" => (last.ret <=> (Text(last.lhs) = Text(last.rhs)))

\* two distinct bindings were compared equal while a third, different Symbol
\* is bound
EqualityWitness ==
    /\ last.op = "eq"
    /\ last.lhs # last.rhs
    /\ last.ret
    /\ \E k \in Live : ~eq(Sym(k), Sym(last.lhs))

IsSortedTexts(v) ==
    \A i \in 1..Len(v), j \in 1..Len(v) :
        i < j => LexCmp(chars(as_str(v[i])), chars(as_str(v[j]))) # "Greater"

SameElements(v, w) ==
    /\ Len(v) = Len(w)
    /\ \A x \in {v[i] : i \in 1..Len(v)} \cup {w[i] : i \in 1..Len(w)} :
          Cardinality({i \in 1..Len(v) : v[i] = x}) = Cardinality({i \in 1..Len(w) : w[i] = x})

\* C6: cmp is the lexicographic comparison of the texts, partial_cmp is
\* Some(cmp), the order is total, antisymmetric and transitive, cmp is Equal
\* exactly when ==, and sorting Symbols sorts their texts.
OrderingIsLexicographic ==
    /\ \A i \in Live, j \in Live :
          /\ cmp(Sym(i), Sym(j)) = LexCmp(Text(i), Text(j))
          /\ partial_cmp(Sym(i), Sym(j)) = Some(cmp(Sym(i), Sym(j)))
          /\ cmp(Sym(i), Sym(j)) \in {"Less", "Equal", "Greater"}
          /\ (cmp(Sym(i), Sym(j)) = "Less") <=> (cmp(Sym(j), Sym(i)) = "Greater")
          /\ (cmp(Sym(i), Sym(j)) = "Equal") <=> eq(Sym(i), Sym(j))
    /\ \A i \in Live, j \in Live, k \in Live :
          (cmp(Sym(i), Sym(j)) # "Greater" /\ cmp(Sym(j), Sym(k)) # "Greater")
             => cmp(Sym(i), Sym(k)) # "Greater"
    /\ last.op = "cmp" => last.ret = LexCmp(Text(last.lhs), Text(last.rhs))
    /\ last.op = "partial_cmp" => last.ret = Some(LexCmp(Text(last.lhs), Text(last.rhs)))
    /\ last.op = "sort" => (IsSortedTexts(last.ret) /\ SameElements(last.ret, LiveVec))

\* three different Symbols, bound out of order, were sorted
OrderingWitness ==
    /\ last.op = "sort"
    /\ Len(last.ret) = 3
    /\ last.ret # LiveVec
    /\ \A i \in 1..3, j \in 1..3 : i # j => last.ret[i] # last.ret[j]

CrossKinds == {"eq_symbol_str", "eq_str_symbol", "eq_symbol_string", "eq_string_symbol"}

\* C7: Symbol == &str, &str == Symbol, Symbol == String and String == Symbol
\* agree, and are true exactly when the Symbol's text and the plain text are
\* the same character sequence.
CrossTypeEqualityAgrees ==
    (last.op = "input" /\ last.seen.kind \in CrossKinds) =>
       LET s == Sym(last.seen.slot)
           t == last.text IN
       /\ last.seen.ret <=> (chars(as_str(s)) = chars(t))
       /\ eq_symbol_str(s, t) = last.seen.ret
       /\ eq_str_symbol(t, s) = last.seen.ret
       /\ eq_symbol_string(s, t) = last.seen.ret
       /\ eq_string_symbol(t, s) = last.seen.ret

\* a plain text compared equal to a Symbol by &str == Symbol
CrossTypeEqualWitness ==
    /\ last.op = "input"
    /\ last.seen.kind = "eq_str_symbol"
    /\ last.seen.ret
    /\ Len(last.text) >= 2

ConversionOps == {"into_string", "into_boxed_str", "to_string"}

\* C9: String::from(s), Box<str>::from(s) and s.to_string() are the text
\* s.as_str(), and try_new on that text gives a Symbol equal to s.
ConversionsSurfaceValue ==
    last.op \in ConversionOps =>
       /\ last.ret = as_str(last.arg)
       /\ try_new(last.ret).tag = "Ok"
       /\ eq(try_new(last.ret).val, last.arg)

\* a Symbol of two characters or more was rendered by to_string
ConversionWitness ==
    /\ last.op = "to_string"
    /\ Len(last.ret) >= 2

(***************************************************************************)
(* SpecSet: a HashSet<Symbol> and a BTreeSet<Symbol>, filled with the same *)
(* Symbols and looked up by Symbol and, through Borrow<str>, by &str       *)
(***************************************************************************)
Buckets == {0, 1, 2, 3}

bucket_of(feed) == finish(feed) % Cardinality(Buckets)

\* HashSet<Symbol>::insert(k): hash k, scan its bucket with ==, push if absent
hash_insert(set, k) ==
    LET b == bucket_of(hash(k)) IN
    IF \E i \in 1..Len(set[b]) : eq(set[b][i], k)
    THEN set
    ELSE [set EXCEPT ![b] = Append(set[b], k)]

\* HashSet<Symbol>::contains(&Symbol)
hash_contains_symbol(set, k) ==
    LET b == bucket_of(hash(k)) IN
    \E i \in 1..Len(set[b]) : eq(set[b][i], k)

\* HashSet<Symbol>::contains(&str): hash the str, compare it with key.borrow()
hash_contains_str(set, q) ==
    LET b == bucket_of(str_hash(q)) IN
    \E i \in 1..Len(set[b]) : str_eq(borrow(set[b][i]), q)

\* BTreeSet<Symbol>::insert(k): walk the keys in order, comparing with Ord::cmp
RECURSIVE btree_insert(_, _)
btree_insert(keys, k) ==
    IF keys = <<>> THEN <<k>>
    ELSE LET o == cmp(k, Head(keys)) IN
         IF o = "Equal" THEN keys
         ELSE IF o = "Less" THEN <<k>> \o keys
         ELSE <<Head(keys)>> \o btree_insert(Tail(keys), k)

\* BTreeSet<Symbol>::contains(&Symbol): the ordered search stops at the first
\* key that is not less than k
RECURSIVE btree_contains_symbol(_, _)
btree_contains_symbol(keys, k) ==
    IF keys = <<>> THEN FALSE
    ELSE LET o == cmp(k, Head(keys)) IN
         IF o = "Equal" THEN TRUE
         ELSE IF o = "Less" THEN FALSE
         ELSE btree_contains_symbol(Tail(keys), k)

\* BTreeSet<Symbol>::contains(&str): the same search, on key.borrow()
RECURSIVE btree_contains_str(_, _)
btree_contains_str(keys, q) ==
    IF keys = <<>> THEN FALSE
    ELSE LET o == str_cmp(q, borrow(Head(keys))) IN
         IF o = "Equal" THEN TRUE
         ELSE IF o = "Less" THEN FALSE
         ELSE btree_contains_str(Tail(keys), q)

InitSet ==
    /\ text = <<>>
    /\ out = [o \in TextOps |-> NotCalled]
    /\ syms = NoSyms
    /\ origin = NoSyms
    /\ last = NoCall
    /\ hset = [b \in Buckets |-> <<>>]
    /\ bset = <<>>
    /\ inserted = {}

Idle == <<text, out, syms, origin>>

\* let k = Symbol::try_new(t)?; set.insert(k.clone()); tree.insert(k);
Insert(t) ==
    LET r == try_new(encode(t)) IN
    /\ r.tag = "Ok"
    /\ Cardinality(inserted) < MaxEntries \/ as_str(r.val) \in inserted
    /\ hset' = hash_insert(hset, clone(r.val))
    /\ bset' = btree_insert(bset, r.val)
    /\ inserted' = inserted \cup {as_str(r.val)}
    /\ last' = [op |-> "insert", text |-> encode(t), ret |-> as_str(r.val) \notin inserted]
    /\ UNCHANGED Idle

\* Symbol::try_new(t) failed: there is no key to insert
InsertRejected(t) ==
    LET r == try_new(encode(t)) IN
    /\ r.tag = "Err"
    /\ last' = [op |-> "insert_rejected", text |-> encode(t), ret |-> FALSE]
    /\ UNCHANGED <<hset, bset, inserted>>
    /\ UNCHANGED Idle

Lookup(op, t, ret) ==
    /\ last' = [op |-> op, text |-> encode(t), ret |-> ret]
    /\ UNCHANGED <<hset, bset, inserted>>
    /\ UNCHANGED Idle

HashContainsStr(t) == Lookup("hash_contains_str", t, hash_contains_str(hset, encode(t)))
BTreeContainsStr(t) == Lookup("btree_contains_str", t, btree_contains_str(bset, encode(t)))

HashContainsSymbol(t) ==
    LET r == try_new(encode(t)) IN
    /\ r.tag = "Ok"
    /\ Lookup("hash_contains_symbol", t, hash_contains_symbol(hset, r.val))

BTreeContainsSymbol(t) ==
    LET r == try_new(encode(t)) IN
    /\ r.tag = "Ok"
    /\ Lookup("btree_contains_symbol", t, btree_contains_symbol(bset, r.val))

NextSet ==
    \/ \E t \in KeyTexts : Insert(t)
    \/ \E t \in KeyTexts : InsertRejected(t)
    \/ \E t \in KeyTexts : HashContainsStr(t)
    \/ \E t \in KeyTexts : BTreeContainsStr(t)
    \/ \E t \in KeyTexts : HashContainsSymbol(t)
    \/ \E t \in KeyTexts : BTreeContainsSymbol(t)

SpecSet == InitSet /\ [][NextSet]_vars

LookupOps == {"hash_contains_str", "btree_contains_str", "hash_contains_symbol",
              "btree_contains_symbol"}

\* C8: a lookup by a plain text finds an entry exactly when a Symbol with
\* that text was inserted, and agrees with the lookup by a Symbol built from
\* the text, in the hash set and in the ordered set; a key's hash is the
\* hash of its borrowed text.
LookupByTextMatchesInserted ==
    /\ \A t \in KeyTexts :
          LET q == encode(t)
              r == try_new(q) IN
          /\ hash_contains_str(hset, q) <=> (q \in inserted)
          /\ btree_contains_str(bset, q) <=> (q \in inserted)
          /\ r.tag = "Ok" =>
                /\ hash_contains_symbol(hset, r.val) = hash_contains_str(hset, q)
                /\ btree_contains_symbol(bset, r.val) = btree_contains_str(bset, q)
    /\ \A i \in 1..Len(bset) : hash(bset[i]) = str_hash(borrow(bset[i]))
    /\ last.op \in LookupOps => (last.ret <=> (last.text \in inserted))

\* with MaxEntries Symbols inserted, a lookup by &str in the hash set found one
LookupByTextWitness ==
    /\ last.op = "hash_contains_str"
    /\ last.ret
    /\ Cardinality(inserted) = MaxEntries
    /\ Len(bset) = MaxEntries

====
